---- MODULE Spec2Model ----
(***************************************************************************)
(* TazzerSDK: the clicker game's state container (GameStateManager,         *)
(* src/src/game/GameScene.ts) and the cross-chain purchase flow            *)
(* (TrailsService, GamePaymentService, src/src/services/TrailsService.ts). *)
(*                                                                         *)
(* Specifications:                                                         *)
(*   Spec      wallet session, purchaseItem / waitIntentReceipt            *)
(*             invocations, the remote gateway and the clock               *)
(*   FairSpec  Spec with the fairness of the event loop, of the clock and  *)
(*             of a gateway that answers                                   *)
(*   SpecGame  the GameStateManager operations, its listeners and the      *)
(*             localStorage slot                                           *)
(*   FairPurchase  the purchases of FairSpec on a session that is already  *)
(*             connected                                                   *)
(*   SpecWait  waitIntentReceipt called on its own with timeout and        *)
(*             pollInterval options                                        *)
(*   SpecOps   the GameStateManager as the application drives it: the      *)
(*             scene's display subscribed, clicks, the timer callback,     *)
(*             shop effects and the clock                                  *)
(*   SpecLoad  the GameStateManager constructed from any slot that parses, *)
(*             saved and constructed again                                 *)
(*   SpecArgs  the GameStateManager operations called with any number as   *)
(*             argument                                                    *)
(*   SpecWallet the wallet session alone: connects, rejections, disconnects*)
(*             and the presence of window.ethereum                         *)
(*   SpecRequest Spec with every kind of gateway response                  *)
(*   SpecPair  two purchaseItem invocations interleaved on one connected   *)
(*             session                                                     *)
(*   SpecApp   CryptoClickerApp on a connected session: the BUY buttons,   *)
(*             the purchase modal, its confirm button and the purchases    *)
(***************************************************************************)
EXTENDS Integers, Sequences, FiniteSets, TLC

\* ---------------------------------------------------------------- bounds
\* wall-clock readings the model explores when nobody waits on the clock
MaxNow == 2
\* cap of the coin balance in SpecGame (guards of click / autoGenerate)
MaxCoins == 2
\* cap of purchaseCount in SpecGame (guards of the purchase-flavoured calls)
MaxPurchases == 1
\* cap of the exceptions listeners throw into GameStateManager operations
\* that SpecGame explores in one behaviour
MaxFaults == 1

VARIABLES
    \* GameStateManager
    state,        \* this.state
    listeners,    \* this.listeners, a Set: insertion order, no duplicates
    storage,      \* localStorage slot 'cryptoClickerState'
    log,          \* history: listener invocations of the last operation
    ret,          \* history: what the last operation returned, or that it threw
    faults,       \* history: exceptions thrown by listeners so far
    mutated,      \* history: some notifying mutation has been made
    tally,        \* history: what click() and autoGenerate() have returned
    now,          \* Date.now()
    \* GamePaymentService
    hasEthereum,  \* window.ethereum is present
    provider, signer, address,
    conn,         \* connectWallet invocations
    proc,         \* purchaseItem / waitIntentReceipt invocations
    \* the remote service
    intents,      \* status of every intent the gateway has committed
    \* CryptoClickerApp
    app           \* the purchase modal and its confirm button

gameVars == <<state, listeners, storage, log, ret, faults, mutated, tally>>
walletVars == <<hasEthereum, provider, signer, address, conn>>
payVars == <<proc, intents>>
vars == <<state, listeners, storage, log, ret, faults, mutated, tally, now,
          hasEthereum, provider, signer, address, conn, proc, intents, app>>

NULL == "null"

\* ======================================================================
\* JavaScript values and objects
\* ======================================================================
\* the values a field of the record can hold: a number, or what a missing
\* property, a failed conversion and a JSON null leave there
Num(n) == [t |-> "number", n |-> n]
Undefined == [t |-> "undefined", n |-> 0]
NaN == [t |-> "NaN", n |-> 0]
Null == [t |-> "null", n |-> 0]

\* ToNumber, applied by the arithmetic and relational operators
ToNumber(v) ==
    CASE v.t = "number" -> v
      [] v.t = "null" -> Num(0)
      [] OTHER -> NaN

\* a + b, a * b on number-like operands
Plus(a, b) ==
    LET x == ToNumber(a)
        y == ToNumber(b)
    IN  IF x = NaN \/ y = NaN THEN NaN ELSE Num(x.n + y.n)

Times(a, b) ==
    LET x == ToNumber(a)
        y == ToNumber(b)
    IN  IF x = NaN \/ y = NaN THEN NaN ELSE Num(x.n * y.n)

\* a <= b, a > b: false as soon as an operand converts to NaN
LessEq(a, b) ==
    LET x == ToNumber(a)
        y == ToNumber(b)
    IN  x # NaN /\ y # NaN /\ x.n <= y.n

Greater(a, b) ==
    LET x == ToNumber(a)
        y == ToNumber(b)
    IN  x # NaN /\ y # NaN /\ x.n > y.n

\* obj.k read and written
Get(obj, k) == IF k \in DOMAIN obj THEN obj[k] ELSE Undefined
Put(obj, k, v) == [x \in DOMAIN obj \cup {k} |-> IF x = k THEN v ELSE obj[x]]

\* ======================================================================
\* JSON and localStorage
\* ======================================================================
\* A string is a sequence of tokens; a token of a JSON object text is one
\* "key":value member, any other text is a token that does not parse.
Keys == <<"coins", "clickPower", "autoPerSecond", "multiplier",
          "multiplierEndTime", "totalClicks", "totalCoinsEarned",
          "purchaseCount">>

\* the property names of the objects explored: the keys of GameState and one
\* key GameState does not have
Props == Keys \o <<"level">>

Member(k, v) == [k |-> k, v |-> v]
Garbage == [k |-> "#", v |-> Null]

\* JSON.stringify of an object: its members in property order; a property
\* that is undefined is left out, NaN is written as null
JSONstringify(obj) ==
    LET ks == SelectSeq(Props, LAMBDA k : k \in DOMAIN obj /\ obj[k] # Undefined)
    IN  [i \in 1..Len(ks) |->
            Member(ks[i], IF obj[ks[i]] = NaN THEN Null ELSE obj[ks[i]])]

JSONparses(text) == \A i \in 1..Len(text) : text[i].k # "#"

\* JSON.parse of a text that parses: the last member of a key wins
JSONparse(text) ==
    [k \in {text[i].k : i \in 1..Len(text)} |->
        LET last == CHOOSE i \in 1..Len(text) :
                        /\ text[i].k = k
                        /\ \A j \in (i+1)..Len(text) : text[j].k # k
        IN  text[last].v]

\* localStorage.getItem: null or the stored string
NoItem == [item |-> FALSE, text |-> <<>>]
Item(text) == [item |-> TRUE, text |-> text]

DefaultState ==
    [coins |-> Num(0), clickPower |-> Num(1), autoPerSecond |-> Num(0),
     multiplier |-> Num(1), multiplierEndTime |-> Num(0),
     totalClicks |-> Num(0), totalCoinsEarned |-> Num(0),
     purchaseCount |-> Num(0)]

\* loadState(): whatever the slot parses to, or the defaults when the slot
\* is missing, empty or does not parse
loadState(slot) ==
    IF slot.item /\ slot.text # <<>> /\ JSONparses(slot.text)
    THEN JSONparse(slot.text)
    ELSE DefaultState

\* ======================================================================
\* GameStateManager: operations on g = [state, listeners, storage, log,
\* mutated], each returns [g, val, threw]
\* ======================================================================
\* listeners: a view of the repository, and one whose callback throws
Listeners == {"scene", "faulty"}
Throws(l) == l = "faulty"

Ok(g, val) == [g |-> g, val |-> val, threw |-> FALSE]
Thrown(g) == [g |-> g, val |-> Undefined, threw |-> TRUE]

getState(g) == g.state

saveState(g) == [g EXCEPT !.storage = Item(JSONstringify(g.state))]

\* one callback of the forEach: the listener receives the snapshot, and sees
\* whether the slot holds the serialization of that snapshot at that moment
CallListener(g, l) ==
    [g EXCEPT !.log =
        Append(@, [listener |-> l, snap |-> getState(g),
                   persisted |-> g.storage = Item(JSONstringify(getState(g)))])]

RECURSIVE forEach(_, _)
forEach(g, i) ==
    IF i > Len(g.listeners) THEN Ok(g, Undefined)
    ELSE LET g1 == CallListener(g, g.listeners[i])
         IN  IF Throws(g.listeners[i]) THEN Thrown(g1)
             ELSE forEach(g1, i + 1)

\* notify(): listeners first, then saveState(); an exception of a listener
\* leaves the forEach and the save is skipped
notify(g) ==
    LET r == forEach([g EXCEPT !.mutated = TRUE], 1)
    IN  IF r.threw THEN r ELSE Ok(saveState(r.g), Undefined)

WithVal(r, val) == IF r.threw THEN r ELSE Ok(r.g, val)

\* this.state.k += v
Add(st, k, v) == Put(st, k, Plus(Get(st, k), v))
\* this.state.k++
Incr(st, k) == Put(st, k, Plus(Get(st, k), Num(1)))

\* an addCoins that takes the amount off the earned total
addCoinsDebits(g, amount) ==
    LET earned == Times(Num(amount), Get(g.state, "multiplier"))
        s == Add(Add(g.state, "coins", earned), "totalCoinsEarned",
                 Times(Num(-1), earned))
    IN  notify([g EXCEPT !.state = s])

addCoins(g, amount) ==
    LET earned == Times(Num(amount), Get(g.state, "multiplier"))
        s == Add(Add(g.state, "coins", earned), "totalCoinsEarned", earned)
    IN  notify([g EXCEPT !.state = s])

\* a click that returns the click power, not the amount it added
clickReturnsPower(g) ==
    LET s1 == Incr(g.state, "totalClicks")
        earned == Times(Get(s1, "clickPower"), Get(s1, "multiplier"))
        s2 == Add(Add(s1, "coins", earned), "totalCoinsEarned", earned)
    IN  WithVal(notify([g EXCEPT !.state = s2]), Get(s1, "clickPower"))

\* a click that adds the multiplier to the click power
clickPlusMultiplier(g) ==
    LET s1 == Incr(g.state, "totalClicks")
        earned == Plus(Get(s1, "clickPower"), Get(s1, "multiplier"))
        s2 == Add(Add(s1, "coins", earned), "totalCoinsEarned", earned)
    IN  WithVal(notify([g EXCEPT !.state = s2]), earned)

click(g) ==
    LET s1 == Incr(g.state, "totalClicks")
        earned == Times(Get(s1, "clickPower"), Get(s1, "multiplier"))
        s2 == Add(Add(s1, "coins", earned), "totalCoinsEarned", earned)
    IN  WithVal(notify([g EXCEPT !.state = s2]), earned)

\* an autoGenerate that goes on when autoPerSecond is 0
autoGenerateAtZero(g) ==
    IF ~LessEq(Num(0), Get(g.state, "autoPerSecond")) THEN Ok(g, Num(0))
    ELSE LET earned == Times(Get(g.state, "autoPerSecond"),
                             Get(g.state, "multiplier"))
             s == Add(Add(g.state, "coins", earned), "totalCoinsEarned", earned)
         IN  WithVal(notify([g EXCEPT !.state = s]), earned)

autoGenerate(g) ==
    IF LessEq(Get(g.state, "autoPerSecond"), Num(0)) THEN Ok(g, Num(0))
    ELSE LET earned == Times(Get(g.state, "autoPerSecond"),
                             Get(g.state, "multiplier"))
             s == Add(Add(g.state, "coins", earned), "totalCoinsEarned", earned)
         IN  WithVal(notify([g EXCEPT !.state = s]), earned)

addClickPower(g, amount) ==
    notify([g EXCEPT !.state =
                Incr(Add(@, "clickPower", Num(amount)), "purchaseCount")])

\* an addAutoPerSecond that does not count as a purchase
addAutoPerSecondUncounted(g, amount) ==
    notify([g EXCEPT !.state = Add(@, "autoPerSecond", Num(amount))])

addAutoPerSecond(g, amount) ==
    notify([g EXCEPT !.state =
                Incr(Add(@, "autoPerSecond", Num(amount)), "purchaseCount")])

setMultiplier(g, multiplier, durationMs, t) ==
    notify([g EXCEPT !.state =
                Incr(Put(Put(@, "multiplier", Num(multiplier)),
                         "multiplierEndTime", Num(t + durationMs)),
                     "purchaseCount")])

\* the boolean it returns
True == Num(1)
False == Num(0)

\* an expiry check that clears the end time and keeps the multiplier
checkMultiplierExpiryKeepsMultiplier(g, t) ==
    IF /\ Greater(Get(g.state, "multiplier"), Num(1))
       /\ Greater(Num(t), Get(g.state, "multiplierEndTime"))
    THEN WithVal(notify([g EXCEPT !.state =
                            Put(@, "multiplierEndTime", Num(0))]),
                 True)
    ELSE Ok(g, False)

checkMultiplierExpiry(g, t) ==
    IF /\ Greater(Get(g.state, "multiplier"), Num(1))
       /\ Greater(Num(t), Get(g.state, "multiplierEndTime"))
    THEN WithVal(notify([g EXCEPT !.state =
                            Put(Put(@, "multiplier", Num(1)),
                                "multiplierEndTime", Num(0))]),
                 True)
    ELSE Ok(g, False)

resetState(g) == notify([g EXCEPT !.state = DefaultState])

\* subscribe(listener): Set.add keeps the first insertion
subscribe(g, l) ==
    IF \E i \in 1..Len(g.listeners) : g.listeners[i] = l THEN g
    ELSE [g EXCEPT !.listeners = Append(@, l)]

\* the handle subscribe returns: Set.delete
unsubscribe(g, l) ==
    [g EXCEPT !.listeners = SelectSeq(@, LAMBDA x : x # l)]

\* the manager as one value, with the log of the operation about to run
TheGame == [state |-> state, listeners |-> listeners, storage |-> storage,
            log |-> <<>>, mutated |-> mutated]

\* an operation's result written back; the in-memory record and the slot
\* keep whatever the operation did before an exception left it
Write(r) ==
    /\ state' = r.g.state
    /\ listeners' = r.g.listeners
    /\ storage' = r.g.storage
    /\ log' = r.g.log
    /\ ret' = [val |-> r.val, threw |-> r.threw]
    /\ faults' = IF r.threw THEN faults + 1 ELSE faults
    /\ mutated' = r.g.mutated

\* the tally of the amounts click() and autoGenerate() returned: kept while
\* the manager started from the default record and every call so far was a
\* click, an autoGenerate, a purchase-flavoured call or an expiry check that
\* returned
NoTally == [scope |-> FALSE, sum |-> 0]
Tally(record) == IF record = DefaultState THEN [scope |-> TRUE, sum |-> 0]
                 ELSE NoTally
TallyAfter(r, val) ==
    IF tally.scope /\ ~r.threw /\ val.t = "number"
    THEN [tally EXCEPT !.sum = @ + val.n]
    ELSE NoTally

\* an operation that returns nothing that is earned
Commit(r) ==
    /\ Write(r)
    /\ tally' = IF r.threw THEN NoTally ELSE tally

\* click() or autoGenerate(): the returned amount joins the tally
CommitEarned(r, val) ==
    /\ Write(r)
    /\ tally' = TallyAfter(r, val)

\* addCoins or resetState: the tally is given up
CommitOutside(r) ==
    /\ Write(r)
    /\ tally' = NoTally

\* SpecGame explores at most MaxFaults operations that a listener leaves by
\* an exception
Budget(r) == r.threw => faults < MaxFaults

\* ======================================================================
\* TrailsService: request and the messages of its errors
\* ======================================================================
\* An error message is a sequence of words.
includes(msg, word) == \E i \in 1..Len(msg) : msg[i] = word

NotConnectedMsg == <<"Wallet", "not", "connected">>
NoWalletMsg == <<"No", "wallet", "detected">>
RejectedMsg == <<"Transaction", "rejected", "by", "user">>
TimeoutMsg == <<"Intent", "receipt", "timeout">>
UnknownMsg == <<"Unknown", "error">>
FetchFailedMsg == <<"Failed", "to", "fetch">>
SyntaxErrorMsg == <<"Unexpected", "token">>
ListenerMsg == <<"listener", "failed">>

\* what the provider puts in the message field of an error body
ProviderMsgs == {<<"insufficient", "liquidity">>,
                 <<"User", "rejected", "the", "request">>}

StatusText(status) ==
    CASE status = 200 -> "200" [] status = 400 -> "400"
      [] status = 500 -> "500" [] OTHER -> "0"

\* a response body: whether it parses as JSON and its message field
Body(parses, message) == [parses |-> parses, message |-> message]
\* fetch: it rejects (net = FALSE), or resolves with a status and a body
Response(net, status, body) == [net |-> net, status |-> status, body |-> body]

OkResponse == Response(TRUE, 200, Body(TRUE, <<>>))
ErrorResponses ==
    {Response(FALSE, 0, Body(FALSE, <<>>)),
     Response(TRUE, 200, Body(FALSE, <<>>)),
     Response(TRUE, 500, Body(FALSE, <<>>)),
     Response(TRUE, 500, Body(TRUE, <<>>))}
    \cup {Response(TRUE, 400, Body(TRUE, m)) : m \in ProviderMsgs}
Responses == {OkResponse} \cup ErrorResponses

\* the answers the purchase flow is explored with: success, a network
\* failure, an error without a message, an error with a provider message
Answers ==
    {OkResponse, Response(FALSE, 0, Body(FALSE, <<>>)),
     Response(TRUE, 500, Body(TRUE, <<>>))}
    \cup {Response(TRUE, 400, Body(TRUE, m)) : m \in ProviderMsgs}

Resolved == [ok |-> TRUE, msg |-> <<>>]
Rejected(msg) == [ok |-> FALSE, msg |-> msg]

\* response.ok
ResponseOk(resp) == resp.status >= 200 /\ resp.status <= 299

\* request(endpoint, body): resolves with the parsed body of a 2xx response;
\* a message field that is missing or empty is falsy
request(resp) ==
    IF ~resp.net THEN Rejected(FetchFailedMsg)
    ELSE IF ~ResponseOk(resp)
    THEN LET error == IF resp.body.parses THEN resp.body
                      ELSE Body(TRUE, UnknownMsg)
         IN  Rejected(IF error.message # <<>> THEN error.message
                      ELSE <<"API", "error:", StatusText(resp.status)>>)
    ELSE IF resp.body.parses THEN Resolved
    ELSE Rejected(SyntaxErrorMsg)

\* ======================================================================
\* the remote service: the intents it has committed, by intentId
\* ======================================================================
ReceiptStatuses == {"pending", "processing", "completed", "failed", "refunded"}

\* the settlement of an executed intent moves on
GatewayNext(status) ==
    CASE status = "pending" -> {"processing", "completed", "failed", "refunded"}
      [] status = "processing" -> {"completed", "failed", "refunded"}
      [] OTHER -> {}

\* ======================================================================
\* GamePaymentService: wallet session
\* ======================================================================
Accounts == {"0xA"}
Conns == {"c1"}

isConnected == address # NULL
getAddress == address

\* getChainId() up to its await: it throws, or it asks the provider for the
\* network
getChainId ==
    IF provider = NULL
    THEN [kind |-> "threw", status |-> "", msg |-> <<"Wallet", "not", "connected">>]
    ELSE [kind |-> "await", status |-> "getNetwork", msg |-> <<>>]

\* a connectWallet() call: where it is suspended, the account its signer
\* stands for, how it ended, and (history) whether disconnectWallet() was
\* called while it was suspended and the address its last assignment replaced
IdleConn == [pc |-> "idle", acct |-> NULL, out |-> "none", stale |-> FALSE,
             prev |-> NULL]

\* connectWallet() up to its first await
ConnectWallet(c) ==
    /\ conn[c].pc = "idle"
    /\ IF ~hasEthereum
       THEN /\ conn' = [conn EXCEPT ![c] = [IdleConn EXCEPT !.out = "NoWalletDetected"]]
            /\ UNCHANGED <<provider, signer, address>>
       ELSE /\ provider' = "provider"
            /\ conn' = [conn EXCEPT ![c] = [IdleConn EXCEPT !.pc = "getSigner"]]
            /\ UNCHANGED <<signer, address>>
    /\ UNCHANGED <<gameVars, now, hasEthereum, payVars, app>>

\* provider.getSigner() resolves: this.signer is set and signer.getAddress()
\* is called
GetSignerResolves(c, acct) ==
    /\ conn[c].pc = "getSigner"
    /\ signer' = acct
    /\ conn' = [conn EXCEPT ![c] = [@ EXCEPT !.pc = "getAddress", !.acct = acct]]
    /\ UNCHANGED <<gameVars, now, hasEthereum, provider, address, payVars, app>>

\* a connectWallet that keeps the address of the session it finds
GetAddressResolvesKeepsSession(c) ==
    /\ conn[c].pc = "getAddress"
    /\ address' = IF address # NULL THEN address ELSE conn[c].acct
    /\ conn' = [conn EXCEPT ![c] = [IdleConn EXCEPT !.out = "connected",
                                                     !.prev = address]]
    /\ UNCHANGED <<gameVars, now, hasEthereum, provider, signer, payVars, app>>

\* signer.getAddress() resolves: this.address is set, connectWallet returns
GetAddressResolves(c) ==
    /\ conn[c].pc = "getAddress"
    /\ address' = conn[c].acct
    /\ conn' = [conn EXCEPT ![c] = [IdleConn EXCEPT !.out = "connected",
                                                     !.prev = address]]
    /\ UNCHANGED <<gameVars, now, hasEthereum, provider, signer, payVars, app>>

\* either await rejects (the user declines, the wallet is locked)
ConnectRejects(c) ==
    /\ conn[c].pc \in {"getSigner", "getAddress"}
    /\ conn' = [conn EXCEPT ![c] = [IdleConn EXCEPT !.out = "rejected"]]
    /\ UNCHANGED <<gameVars, now, hasEthereum, provider, signer, address, payVars, app>>

\* a disconnect that also ends the purchases under way
DisconnectWalletCancels ==
    /\ provider' = NULL /\ signer' = NULL /\ address' = NULL
    /\ conn' = [c \in Conns |->
                   IF conn[c].pc = "idle" THEN conn[c]
                   ELSE [conn[c] EXCEPT !.stale = TRUE]]
    /\ proc' = [p \in DOMAIN proc |->
                   IF proc[p].pc \in {"idle", "done"} THEN proc[p]
                   ELSE [proc[p] EXCEPT !.cut = TRUE, !.pc = "done",
                             !.out = [kind |-> "threw", status |-> "",
                                      msg |-> <<"Wallet", "not", "connected">>]]]
    /\ UNCHANGED <<gameVars, now, hasEthereum, intents, app>>

\* disconnectWallet(); (history) the calls under way are marked
DisconnectWallet ==
    /\ provider' = NULL /\ signer' = NULL /\ address' = NULL
    /\ conn' = [c \in Conns |->
                   IF conn[c].pc = "idle" THEN conn[c]
                   ELSE [conn[c] EXCEPT !.stale = TRUE]]
    /\ proc' = [p \in DOMAIN proc |->
                   IF proc[p].pc \in {"idle", "done"} THEN proc[p]
                   ELSE [proc[p] EXCEPT !.cut = TRUE]]
    /\ UNCHANGED <<gameVars, now, hasEthereum, intents, app>>

\* ======================================================================
\* SHOP_ITEMS and their effects on the game state
\* ======================================================================
\* waitIntentReceipt's defaults in clock units: the timeout (300000 ms, the
\* five minutes of the 2X multiplier as well) and the poll interval
DefaultTimeout == 2
DefaultPollInterval == 1

FiveMinutes == DefaultTimeout
TenMinutes == 2 * DefaultTimeout

ShopItems == {"click-boost", "auto-miner", "multiplier", "mega-pack",
              "legendary-crystal"}

\* r, then f applied to the manager r left, unless r threw
Then(r, f(_)) == IF r.threw THEN r ELSE f(r.g)

effect(item, g, t) ==
    CASE item = "click-boost" -> addClickPower(g, 10)
      [] item = "auto-miner" -> addAutoPerSecond(g, 5)
      [] item = "multiplier" -> setMultiplier(g, 2, FiveMinutes, t)
      [] item = "mega-pack" ->
            Then(Then(addClickPower(g, 50),
                      LAMBDA g1 : addAutoPerSecond(g1, 20)),
                 LAMBDA g2 : setMultiplier(g2, 2, TenMinutes, t))
      [] item = "legendary-crystal" ->
            Then(addClickPower(g, 500),
                 LAMBDA g1 : addAutoPerSecond(g1, 100))

\* ======================================================================
\* purchaseItem and waitIntentReceipt invocations
\* ======================================================================
\* invocations of purchaseItem, and of waitIntentReceipt called on its own
Purchasers == {"p1"}
Waiters == {"w1"}
Procs == Purchasers \cup Waiters

\* the phase labels handed to onStatusUpdate
LabelQuote == "Getting best route..."
LabelCommit == "Locking in rate..."
LabelExecute == "Confirm in your wallet..."
LabelWait == "Waiting for confirmation..."

\* trace events: update(label), a remote call, its answer, effect(), the
\* timer between two polls, and how the invocation ends
Ev(e) == [e |-> e, id |-> 0]
EvId(e, id) == [e |-> e, id |-> id]

NoOutcome == [kind |-> "none", status |-> "", msg |-> <<>>]
Returned(status) == [kind |-> "returned", status |-> status, msg |-> <<>>]
Threw(msg) == [kind |-> "threw", status |-> "", msg |-> msg]

IdleProc ==
    [pc |-> "idle", kind |-> "none", item |-> "", owner |-> NULL,
     intentId |-> 0, startTime |-> 0, timeout |-> 0, pollInterval |-> 0,
     wakeAt |-> 0, receipt |-> "", wasConnected |-> FALSE, cut |-> FALSE,
     trace |-> <<>>, raised |-> <<>>, out |-> NoOutcome]

Emit(r, events) == [r EXCEPT !.trace = @ \o events]

\* a check that looks at the signer alone
NotConnectedSignerOnly(addr, sgn) == sgn = NULL

\* the connection check of purchaseItem
NotConnected(addr, sgn) == addr = NULL \/ sgn = NULL

\* a catch block that rethrows whatever it caught
ClassifyNothing(msg) == msg

\* the catch block of purchaseItem: includes('rejected') selects the errors
\* replaced by the user-rejection error, any other is rethrown as it is
Classify(msg) == IF includes(msg, "rejected") THEN RejectedMsg ELSE msg

\* an error leaves the invocation: through purchaseItem's catch block, or
\* straight out of a waitIntentReceipt called on its own
Fail(r, msg) ==
    [Emit(r, <<Ev("throw")>>) EXCEPT
        !.pc = "done", !.raised = msg,
        !.out = Threw(IF r.kind = "purchase" THEN Classify(msg) ELSE msg)]

\* a status test that takes 'processing' for final
IsTerminalOrProcessing(status) ==
    status \in {"processing", "completed", "failed", "refunded"}

IsTerminal(status) == status \in {"completed", "failed", "refunded"}

\* a loop condition that still polls when the timeout has just elapsed
InTimeInclusive(t, startTime, timeout) == t - startTime <= timeout

\* the loop condition of waitIntentReceipt
InTime(t, startTime, timeout) == t - startTime < timeout

\* the head of the while loop: the next poll is issued or the wait times out
WaitLoop(r, t) ==
    IF InTime(t, r.startTime, r.timeout)
    THEN [Emit(r, <<EvId("getIntentReceipt", r.intentId)>>) EXCEPT !.pc = "poll"]
    ELSE Fail(r, TimeoutMsg)

\* waitIntentReceipt(intentId, options) up to its first await
waitIntentReceipt(r, intentId, timeout, pollInterval, t) ==
    WaitLoop([r EXCEPT !.intentId = intentId, !.timeout = timeout,
                       !.pollInterval = pollInterval, !.startTime = t], t)

\* step 1 of purchaseItem: the label, then the quote request
StartQuote(r, addr) ==
    [Emit(r, <<Ev(LabelQuote), Ev("quoteIntent")>>) EXCEPT
        !.pc = "quote", !.owner = addr]

\* a step 2 that reports its label after the request went out
StartCommitLabelLate(r) ==
    [Emit(r, <<Ev("commitIntent"), Ev(LabelCommit)>>) EXCEPT !.pc = "commit"]

\* step 2: the label, then the commit request
StartCommit(r) ==
    [Emit(r, <<Ev(LabelCommit), Ev("commitIntent")>>) EXCEPT !.pc = "commit"]

\* step 3: the label, then the execute request for the committed intent
StartExecute(r, intentId) ==
    [Emit(r, <<Ev(LabelExecute), EvId("executeIntent", intentId)>>) EXCEPT
        !.pc = "execute", !.intentId = intentId]

\* step 4: the label, then waitIntentReceipt with its defaults
StartWait(r, t) ==
    waitIntentReceipt(Emit(r, <<Ev(LabelWait)>>), r.intentId,
                      DefaultTimeout, DefaultPollInterval, t)

\* a failed receipt poll is swallowed and the loop polls again
OnErrorRetryPoll(r, msg) ==
    IF r.pc = "poll"
    THEN [Emit(r, <<Ev("error"), Ev("sleep")>>) EXCEPT !.pc = "sleep"]
    ELSE Fail(Emit(r, <<Ev("error")>>), msg)

\* a failed remote call: request throws, nothing is retried
OnError(r, msg) == Fail(Emit(r, <<Ev("error")>>), msg)

\* purchaseItem(item, fromChainId, onStatusUpdate) up to its first await:
\* the invocation it leaves behind
purchaseItem(item) ==
    LET r == [IdleProc EXCEPT !.kind = "purchase", !.item = item,
                              !.wasConnected = (address # NULL /\ signer # NULL)]
    IN  IF NotConnected(address, signer)
        THEN [Emit(r, <<Ev("throw")>>) EXCEPT
                 !.pc = "done", !.raised = NotConnectedMsg,
                 !.out = Threw(NotConnectedMsg)]
        ELSE StartQuote(r, address)

PurchaseItem(p, item) ==
    /\ proc[p].pc = "idle"
    /\ proc' = [proc EXCEPT ![p] = purchaseItem(item)]
    /\ UNCHANGED <<gameVars, now, walletVars, intents, app>>

\* ======================================================================
\* CryptoClickerApp: the purchase modal
\* ======================================================================
\* currentPurchaseItem, the modal's 'active' class, confirmBtn.disabled, and
\* the confirmPurchase() calls suspended at their await of purchaseItem
IdleApp == [item |-> NULL, active |-> FALSE, disabled |-> FALSE, awaiting |-> {}]

\* a click on a BUY button: openPurchaseModal(item); without a session it
\* only shows a toast
OpenPurchaseModal(item) ==
    /\ isConnected
    /\ app' = [app EXCEPT !.item = item, !.active = TRUE]
    /\ UNCHANGED <<gameVars, now, walletVars, payVars>>

closeModal(a) == [a EXCEPT !.active = FALSE, !.item = NULL]

\* a click on CANCEL or on the overlay of the open modal
CloseModal ==
    /\ app.active
    /\ app' = closeModal(app)
    /\ UNCHANGED <<gameVars, now, walletVars, payVars>>

\* a confirmPurchase that leaves the button enabled
ConfirmPurchaseKeepsButton(p) ==
    /\ ~app.disabled
    /\ app.item # NULL
    /\ proc[p].pc = "idle"
    /\ app' = [app EXCEPT !.awaiting = @ \cup {p}]
    /\ proc' = [proc EXCEPT ![p] = purchaseItem(app.item)]
    /\ UNCHANGED <<gameVars, now, walletVars, intents>>

\* a click on CONFIRM, which a disabled button does not deliver:
\* confirmPurchase() up to its await
ConfirmPurchase(p) ==
    /\ ~app.disabled
    /\ app.item # NULL
    /\ proc[p].pc = "idle"
    /\ app' = [app EXCEPT !.disabled = TRUE, !.awaiting = @ \cup {p}]
    /\ proc' = [proc EXCEPT ![p] = purchaseItem(app.item)]
    /\ UNCHANGED <<gameVars, now, walletVars, intents>>

\* purchaseItem has settled: the try, catch and finally blocks of
\* confirmPurchase()
ConfirmSettles(p) ==
    /\ p \in app.awaiting
    /\ proc[p].pc = "done"
    /\ app' = [(IF proc[p].out = Returned("completed")
                THEN closeModal(app) ELSE app)
                   EXCEPT !.disabled = FALSE, !.awaiting = @ \ {p}]
    /\ UNCHANGED <<gameVars, now, walletVars, payVars>>


\* the quote request is answered
QuoteAnswer(p, resp) ==
    /\ proc[p].pc = "quote"
    /\ LET a == request(resp)
       IN  proc' = [proc EXCEPT ![p] =
                IF a.ok THEN StartCommit(Emit(@, <<Ev("ok")>>))
                ELSE OnError(@, a.msg)]
    /\ UNCHANGED <<gameVars, now, walletVars, intents, app>>

\* the commit request is answered: the gateway has minted the intent
CommitAnswer(p, resp) ==
    /\ proc[p].pc = "commit"
    /\ LET a == request(resp)
       IN  IF a.ok
           THEN /\ intents' = Append(intents, "committed")
                /\ proc' = [proc EXCEPT ![p] =
                       StartExecute(Emit(@, <<Ev("ok")>>), Len(intents) + 1)]
           ELSE /\ proc' = [proc EXCEPT ![p] = OnError(@, a.msg)]
                /\ UNCHANGED intents
    /\ UNCHANGED <<gameVars, now, walletVars, app>>

\* the execute request is answered: the intent is on its way
ExecuteAnswer(p, resp) ==
    /\ proc[p].pc = "execute"
    /\ LET a == request(resp)
       IN  IF a.ok
           THEN /\ intents' = [intents EXCEPT ![proc[p].intentId] = "pending"]
                /\ proc' = [proc EXCEPT ![p] =
                       StartWait(Emit(@, <<Ev("ok")>>), now)]
           ELSE /\ proc' = [proc EXCEPT ![p] = OnError(@, a.msg)]
                /\ UNCHANGED intents
    /\ UNCHANGED <<gameVars, now, walletVars, app>>

\* waitIntentReceipt called on its own, for an intent that was executed
WaitIntentReceipt(p, intentId, timeout, pollInterval) ==
    /\ proc[p].pc = "idle"
    /\ intents[intentId] \in ReceiptStatuses
    /\ proc' = [proc EXCEPT ![p] =
           waitIntentReceipt([IdleProc EXCEPT !.kind = "wait"], intentId,
                             timeout, pollInterval, now)]
    /\ UNCHANGED <<gameVars, now, walletVars, intents, app>>

\* a pause whose promise is never resolved
SleepNoTimer(r, t) ==
    [Emit(r, <<Ev("ok"), Ev("sleep")>>) EXCEPT !.pc = "asleep"]

\* the pause between two polls: the timer of pollInterval is armed
Sleep(r, t) ==
    [Emit(r, <<Ev("ok"), Ev("sleep")>>) EXCEPT
        !.pc = "sleep", !.wakeAt = t + r.pollInterval]

\* waitIntentReceipt returns the receipt to whoever called it on its own
ReturnReceipt(r, status) ==
    [Emit(r, <<Ev("ok"), Ev("return")>>) EXCEPT
        !.pc = "done", !.receipt = status, !.out = Returned(status)]

\* an effect applied for every final status
ShouldApplyAnyTerminal(status) == IsTerminal(status)

\* the receipt statuses for which purchaseItem applies the item's effect
ShouldApply(status) == status = "completed"

\* a purchaseItem that throws for a receipt that is not 'completed'
AfterReceiptThrowing(r, status, e) ==
    LET r1 == [Emit(r, <<Ev("ok")>>) EXCEPT !.receipt = status]
    IN  IF ShouldApply(status)
        THEN IF e.threw THEN Fail(Emit(r1, <<Ev("effect")>>), ListenerMsg)
             ELSE [Emit(r1, <<Ev("effect"), Ev("return")>>) EXCEPT
                      !.pc = "done", !.out = Returned(status)]
        ELSE Fail(r1, <<"Purchase", status>>)

\* purchaseItem after waitIntentReceipt returned the receipt; e is what
\* item.effect() does when it is called
AfterReceipt(r, status, e) ==
    LET r1 == [Emit(r, <<Ev("ok")>>) EXCEPT !.receipt = status]
    IN  IF ShouldApply(status)
        THEN IF e.threw THEN Fail(Emit(r1, <<Ev("effect")>>), ListenerMsg)
             ELSE [Emit(r1, <<Ev("effect"), Ev("return")>>) EXCEPT
                      !.pc = "done", !.out = Returned(status)]
        ELSE [Emit(r1, <<Ev("return")>>) EXCEPT
                 !.pc = "done", !.out = Returned(status)]

\* a poll is answered with the receipt of the polled intent
PollAnswer(p, resp) ==
    /\ proc[p].pc = "poll"
    /\ LET a == request(resp)
           r == proc[p]
           status == intents[r.intentId]
           e == effect(r.item, TheGame, now)
       IN  IF ~a.ok
           THEN /\ proc' = [proc EXCEPT ![p] = OnError(r, a.msg)]
                /\ UNCHANGED gameVars
           ELSE IF ~IsTerminal(status)
           THEN /\ proc' = [proc EXCEPT ![p] = Sleep(r, now)]
                /\ UNCHANGED gameVars
           ELSE IF r.kind = "wait"
           THEN /\ proc' = [proc EXCEPT ![p] = ReturnReceipt(r, status)]
                /\ UNCHANGED gameVars
           ELSE /\ proc' = [proc EXCEPT ![p] = AfterReceipt(r, status, e)]
                /\ IF ShouldApply(status) THEN Commit(e)
                   ELSE UNCHANGED gameVars
    /\ UNCHANGED <<now, walletVars, intents, app>>

\* the timer of the poll interval fires
WakeUp(p) ==
    /\ proc[p].pc = "sleep"
    /\ now >= proc[p].wakeAt
    /\ proc' = [proc EXCEPT ![p] = WaitLoop(@, now)]
    /\ UNCHANGED <<gameVars, now, walletVars, intents, app>>

\* the remote service settles an executed intent
GatewayStep(i) ==
    /\ \E next \in GatewayNext(intents[i]) :
           intents' = [intents EXCEPT ![i] = next]
    /\ UNCHANGED <<gameVars, now, walletVars, proc, app>>

\* ======================================================================
\* SpecGame: the GameStateManager used through its public operations
\* ======================================================================
\* arguments the callers of this repository pass, scaled to the bounds
Amounts == {1, 2}
Multipliers == {2}
Durations == {1}

\* a record an earlier session left in the slot
SavedState == [DefaultState EXCEPT !.coins = Num(2),
                                   !.totalCoinsEarned = Num(2),
                                   !.totalClicks = Num(2)]

InitialSlots == {NoItem, Item(<<>>), Item(<<Garbage>>),
                 Item(JSONstringify(DefaultState)),
                 Item(JSONstringify(SavedState))}

\* no wallet session, no invocation, no intent
InitPay ==
    /\ provider = NULL /\ signer = NULL /\ address = NULL
    /\ conn = [c \in Conns |-> IdleConn]
    /\ proc = [p \in Procs |-> IdleProc]
    /\ intents = <<>>
    /\ app = IdleApp

\* new GameStateManager(): the record is loaded from the slot
Construct ==
    /\ state = loadState(storage)
    /\ listeners = <<>>
    /\ log = <<>>
    /\ ret = [val |-> Undefined, threw |-> FALSE]
    /\ faults = 0
    /\ mutated = FALSE
    /\ tally = Tally(state)
    /\ now = 0
    /\ hasEthereum = FALSE
    /\ InitPay

InitGame ==
    /\ storage \in InitialSlots
    /\ Construct

Click ==
    /\ ~Greater(Get(state, "coins"), Num(MaxCoins - 1))
    /\ ~Greater(Get(state, "totalClicks"), Num(MaxCoins - 1))
    /\ Budget(click(TheGame))
    /\ CommitEarned(click(TheGame), click(TheGame).val)
    /\ UNCHANGED <<now, walletVars, payVars, app>>

AddCoins(amount) ==
    /\ ~Greater(Get(state, "coins"), Num(MaxCoins - 1))
    /\ Budget(addCoins(TheGame, amount))
    /\ CommitOutside(addCoins(TheGame, amount))
    /\ UNCHANGED <<now, walletVars, payVars, app>>

AutoGenerate ==
    /\ ~Greater(Get(state, "coins"), Num(MaxCoins - 1))
    /\ Budget(autoGenerate(TheGame))
    /\ CommitEarned(autoGenerate(TheGame), autoGenerate(TheGame).val)
    /\ UNCHANGED <<now, walletVars, payVars, app>>

AddClickPower(amount) ==
    /\ ~Greater(Get(state, "purchaseCount"), Num(MaxPurchases - 1))
    /\ Budget(addClickPower(TheGame, amount))
    /\ Commit(addClickPower(TheGame, amount))
    /\ UNCHANGED <<now, walletVars, payVars, app>>

AddAutoPerSecond(amount) ==
    /\ ~Greater(Get(state, "purchaseCount"), Num(MaxPurchases - 1))
    /\ Budget(addAutoPerSecond(TheGame, amount))
    /\ Commit(addAutoPerSecond(TheGame, amount))
    /\ UNCHANGED <<now, walletVars, payVars, app>>

SetMultiplier(multiplier, durationMs) ==
    /\ ~Greater(Get(state, "purchaseCount"), Num(MaxPurchases - 1))
    /\ Budget(setMultiplier(TheGame, multiplier, durationMs, now))
    /\ Commit(setMultiplier(TheGame, multiplier, durationMs, now))
    /\ UNCHANGED <<now, walletVars, payVars, app>>

CheckMultiplierExpiry ==
    /\ Budget(checkMultiplierExpiry(TheGame, now))
    /\ Commit(checkMultiplierExpiry(TheGame, now))
    /\ UNCHANGED <<now, walletVars, payVars, app>>

ResetState ==
    /\ Budget(resetState(TheGame))
    /\ CommitOutside(resetState(TheGame))
    /\ UNCHANGED <<now, walletVars, payVars, app>>

Subscribe(l) ==
    /\ Commit(Ok(subscribe(TheGame, l), Undefined))
    /\ UNCHANGED <<now, walletVars, payVars, app>>

Unsubscribe(l) ==
    /\ \E i \in 1..Len(listeners) : listeners[i] = l
    /\ Commit(Ok(unsubscribe(TheGame, l), Undefined))
    /\ UNCHANGED <<now, walletVars, payVars, app>>

\* the callback of the scene's one-second timer: autoGenerate(), then
\* checkMultiplierExpiry(); val is what autoGenerate returned
timerCallback(g, t) ==
    LET a == autoGenerate(g)
    IN  IF a.threw THEN a
        ELSE [checkMultiplierExpiry(a.g, t) EXCEPT !.val = a.val]

TimerCallback ==
    /\ ~Greater(Get(state, "coins"), Num(MaxCoins - 1))
    /\ Budget(timerCallback(TheGame, now))
    /\ CommitEarned(timerCallback(TheGame, now), timerCallback(TheGame, now).val)
    /\ UNCHANGED <<now, walletVars, payVars, app>>

\* some invocation still reads the clock: a sleeping or polling
\* waitIntentReceipt whose deadline or timer lies ahead
ClockNeeded ==
    \E p \in DOMAIN proc :
        \/ proc[p].pc = "sleep" /\ now < proc[p].wakeAt
        \/ proc[p].pc \in {"sleep", "poll"}
             /\ now - proc[p].startTime < proc[p].timeout

\* time passes
Tick ==
    /\ now < MaxNow \/ ClockNeeded
    /\ now' = now + 1
    /\ UNCHANGED <<gameVars, walletVars, payVars, app>>

NextGame ==
    \/ Click
    \/ \E a \in Amounts : AddCoins(a)
    \/ AutoGenerate
    \/ \E a \in Amounts : AddClickPower(a)
    \/ \E a \in Amounts : AddAutoPerSecond(a)
    \/ \E m \in Multipliers, d \in Durations : SetMultiplier(m, d)
    \/ CheckMultiplierExpiry
    \/ TimerCallback
    \/ ResetState
    \/ \E l \in Listeners : Subscribe(l)
    \/ \E l \in Listeners : Unsubscribe(l)
    \/ Tick

SpecGame == InitGame /\ [][NextGame]_vars

\* ======================================================================
\* SpecOps: the GameStateManager as the application runs it: the scene has
\* subscribed its display, the player clicks, the timer fires, shop effects
\* are applied, time passes
\* ======================================================================
InitOps ==
    /\ storage \in InitialSlots
    /\ state = loadState(storage)
    /\ listeners = <<"scene">>
    /\ log = <<>>
    /\ ret = [val |-> Undefined, threw |-> FALSE]
    /\ faults = 0
    /\ mutated = FALSE
    /\ tally = Tally(state)
    /\ now = 0
    /\ hasEthereum = FALSE
    /\ InitPay

NextOps ==
    \/ Click
    \/ \E a \in Amounts : AddCoins(a)
    \/ AutoGenerate
    \/ \E a \in Amounts : AddClickPower(a)
    \/ \E a \in Amounts : AddAutoPerSecond(a)
    \/ \E m \in Multipliers, d \in Durations : SetMultiplier(m, d)
    \/ CheckMultiplierExpiry
    \/ TimerCallback
    \/ ResetState
    \/ Tick

SpecOps == InitOps /\ [][NextOps]_vars

\* ======================================================================
\* SpecLoad: the GameStateManager constructed from any slot that parses,
\* used, saved and constructed again
\* ======================================================================
\* a saved object that lacks keys of GameState, and one with a key GameState
\* does not have
PartialText == <<Member("coins", Num(1))>>
ExtendedText == JSONstringify(DefaultState) \o <<Member("level", Num(1))>>

LoadSlots == InitialSlots \cup {Item(PartialText), Item(ExtendedText)}

InitLoad ==
    /\ storage \in LoadSlots
    /\ Construct

\* saveState(), then the page is loaded again: a new GameStateManager is
\* constructed from the slot
Reload ==
    /\ storage' = saveState(TheGame).storage
    /\ state' = loadState(storage')
    /\ listeners' = <<>>
    /\ log' = <<>>
    /\ ret' = [val |-> Undefined, threw |-> FALSE]
    /\ mutated' = FALSE
    /\ tally' = NoTally
    /\ UNCHANGED <<faults, now, walletVars, payVars, app>>

\* no listener is subscribed
NextLoad ==
    \/ Click
    \/ \E a \in Amounts : AddCoins(a)
    \/ AutoGenerate
    \/ \E a \in Amounts : AddClickPower(a)
    \/ \E a \in Amounts : AddAutoPerSecond(a)
    \/ \E m \in Multipliers, d \in Durations : SetMultiplier(m, d)
    \/ CheckMultiplierExpiry
    \/ ResetState
    \/ Reload
    \/ Tick

SpecLoad == InitLoad /\ [][NextLoad]_vars

\* ======================================================================
\* SpecWallet: the wallet session of GamePaymentService on its own: a wallet
\* with two accounts, a host environment whose provider comes and goes
\* ======================================================================
WalletAccounts == {"0xA", "0xB"}

\* window.ethereum is assigned by a wallet extension, or deleted
SetEthereum(present) ==
    /\ hasEthereum # present
    /\ hasEthereum' = present
    /\ UNCHANGED <<gameVars, now, provider, signer, address, conn, payVars, app>>

InitWallet ==
    /\ storage = NoItem
    /\ state = loadState(storage)
    /\ listeners = <<"scene">>
    /\ log = <<>>
    /\ ret = [val |-> Undefined, threw |-> FALSE]
    /\ faults = 0
    /\ mutated = FALSE
    /\ tally = Tally(state)
    /\ now = 0
    /\ hasEthereum \in BOOLEAN
    /\ InitPay

NextWallet ==
    \/ \E c \in Conns : ConnectWallet(c)
    \/ \E c \in Conns, acct \in WalletAccounts : GetSignerResolves(c, acct)
    \/ \E c \in Conns : GetAddressResolves(c)
    \/ \E c \in Conns : ConnectRejects(c)
    \/ DisconnectWallet
    \/ \E present \in BOOLEAN : SetEthereum(present)
    \/ \E p \in Purchasers, item \in ShopItems : PurchaseItem(p, item)

SpecWallet == InitWallet /\ [][NextWallet]_vars

\* ======================================================================
\* SpecArgs: the GameStateManager called with any numeric arguments
\* ======================================================================
\* amounts and multipliers a caller may pass: the parameters are `number`
Numbers == {-1, 0, 1}
AnyMultipliers == {0, 2}

\* the balances the exploration follows, in both directions
Balances == {"coins", "clickPower", "autoPerSecond", "totalCoinsEarned"}
InRange(record) ==
    \A k \in Balances :
        /\ ~Greater(Get(record, k), Num(MaxCoins))
        /\ ~Greater(Num(-MaxCoins), Get(record, k))

NextArgs ==
    \/ Click /\ InRange(state')
    \/ \E a \in Numbers : AddCoins(a) /\ InRange(state')
    \/ AutoGenerate /\ InRange(state')
    \/ \E a \in Numbers : AddClickPower(a) /\ InRange(state')
    \/ \E a \in Numbers : AddAutoPerSecond(a) /\ InRange(state')
    \/ \E m \in AnyMultipliers, d \in Durations :
           SetMultiplier(m, d) /\ InRange(state')
    \/ CheckMultiplierExpiry
    \/ TimerCallback /\ InRange(state')
    \/ ResetState
    \/ Tick

SpecArgs == InitOps /\ [][NextArgs]_vars

\* ======================================================================
\* Spec: the payment service, the gateway and the clock
\* ======================================================================
Init ==
    /\ storage = NoItem
    /\ state = loadState(storage)
    /\ listeners \in {<<"scene">>, <<"scene", "faulty">>}
    /\ log = <<>>
    /\ ret = [val |-> Undefined, threw |-> FALSE]
    /\ faults = 0
    /\ mutated = FALSE
    /\ tally = Tally(state)
    /\ now = 0
    /\ hasEthereum \in BOOLEAN
    /\ InitPay

Next ==
    \/ \E c \in Conns : ConnectWallet(c)
    \/ \E c \in Conns, acct \in Accounts : GetSignerResolves(c, acct)
    \/ \E c \in Conns : GetAddressResolves(c)
    \/ \E c \in Conns : ConnectRejects(c)
    \/ DisconnectWallet
    \/ \E p \in Purchasers, item \in ShopItems : PurchaseItem(p, item)
    \/ \E p \in Purchasers, resp \in Answers : QuoteAnswer(p, resp)
    \/ \E p \in Purchasers, resp \in Answers : CommitAnswer(p, resp)
    \/ \E p \in Purchasers, resp \in Answers : ExecuteAnswer(p, resp)
    \/ \E p \in Purchasers, resp \in Answers : PollAnswer(p, resp)
    \/ \E p \in Purchasers : WakeUp(p)
    \/ \E i \in 1..Len(intents) : GatewayStep(i)
    \/ Tick

Spec == Init /\ [][Next]_vars

\* the event loop runs every continuation that is ready, the clock advances,
\* and the gateway answers every request it was sent
Fairness ==
    /\ WF_vars(Tick)
    /\ \A p \in Purchasers :
        /\ WF_vars(\E resp \in Answers : QuoteAnswer(p, resp))
        /\ WF_vars(\E resp \in Answers : CommitAnswer(p, resp))
        /\ WF_vars(\E resp \in Answers : ExecuteAnswer(p, resp))
        /\ WF_vars(\E resp \in Answers : PollAnswer(p, resp))
        /\ WF_vars(WakeUp(p))

FairSpec == Spec /\ Fairness

\* ======================================================================
\* FairPurchase: purchases on a session that is already connected, with the
\* fairness of FairSpec
\* ======================================================================
InitPurchase ==
    /\ storage = NoItem
    /\ state = loadState(storage)
    /\ listeners \in {<<"scene">>, <<"scene", "faulty">>}
    /\ log = <<>>
    /\ ret = [val |-> Undefined, threw |-> FALSE]
    /\ faults = 0
    /\ mutated = FALSE
    /\ tally = Tally(state)
    /\ now = 0
    /\ hasEthereum = TRUE
    /\ provider = "provider"
    /\ \E acct \in Accounts : signer = acct /\ address = acct
    /\ conn = [c \in Conns |-> IdleConn]
    /\ proc = [p \in Procs |-> IdleProc]
    /\ intents = <<>>
    /\ app = IdleApp

NextPurchase ==
    \/ DisconnectWallet
    \/ \E p \in Purchasers, item \in ShopItems : PurchaseItem(p, item)
    \/ \E p \in Purchasers, resp \in Answers : QuoteAnswer(p, resp)
    \/ \E p \in Purchasers, resp \in Answers : CommitAnswer(p, resp)
    \/ \E p \in Purchasers, resp \in Answers : ExecuteAnswer(p, resp)
    \/ \E p \in Purchasers, resp \in Answers : PollAnswer(p, resp)
    \/ \E p \in Purchasers : WakeUp(p)
    \/ \E i \in 1..Len(intents) : GatewayStep(i)
    \/ Tick

FairPurchase == InitPurchase /\ [][NextPurchase]_vars /\ Fairness

\* ======================================================================
\* SpecRequest: the purchase flow against a gateway that may answer with
\* any response, a body that does not parse included
\* ======================================================================
NextRequest ==
    \/ \E c \in Conns : ConnectWallet(c)
    \/ \E c \in Conns, acct \in Accounts : GetSignerResolves(c, acct)
    \/ \E c \in Conns : GetAddressResolves(c)
    \/ \E c \in Conns : ConnectRejects(c)
    \/ DisconnectWallet
    \/ \E p \in Purchasers, item \in ShopItems : PurchaseItem(p, item)
    \/ \E p \in Purchasers, resp \in Responses : QuoteAnswer(p, resp)
    \/ \E p \in Purchasers, resp \in Responses : CommitAnswer(p, resp)
    \/ \E p \in Purchasers, resp \in Responses : ExecuteAnswer(p, resp)
    \/ \E p \in Purchasers, resp \in Responses : PollAnswer(p, resp)
    \/ \E p \in Purchasers : WakeUp(p)
    \/ \E i \in 1..Len(intents) : GatewayStep(i)
    \/ Tick

SpecRequest == Init /\ [][NextRequest]_vars

\* ======================================================================
\* SpecPair: two purchaseItem invocations under way at once, in a session
\* that is connected
\* ======================================================================
PairPurchasers == {"p1", "p2"}
\* the invocations are named in the order they are called, and each buys an
\* item of its own
PairItem(p) == IF p = "p1" THEN "click-boost" ELSE "auto-miner"
CalledInOrder(p) == p = "p2" => proc["p1"].pc # "idle"
PairAnswers == {OkResponse, Response(TRUE, 500, Body(TRUE, <<>>))}

InitPair ==
    /\ storage = NoItem
    /\ state = loadState(storage)
    /\ listeners \in {<<"scene">>, <<"scene", "faulty">>}
    /\ log = <<>>
    /\ ret = [val |-> Undefined, threw |-> FALSE]
    /\ faults = 0
    /\ mutated = FALSE
    /\ tally = Tally(state)
    /\ now = 0
    /\ hasEthereum = TRUE
    /\ provider = "provider"
    /\ \E acct \in Accounts : signer = acct /\ address = acct
    /\ conn = [c \in Conns |-> [IdleConn EXCEPT !.out = "connected"]]
    /\ proc = [p \in PairPurchasers |-> IdleProc]
    /\ intents = <<>>
    /\ app = IdleApp

NextPair ==
    \/ \E p \in PairPurchasers : CalledInOrder(p) /\ PurchaseItem(p, PairItem(p))
    \/ \E p \in PairPurchasers, resp \in PairAnswers : QuoteAnswer(p, resp)
    \/ \E p \in PairPurchasers, resp \in PairAnswers : CommitAnswer(p, resp)
    \/ \E p \in PairPurchasers, resp \in PairAnswers : ExecuteAnswer(p, resp)
    \/ \E p \in PairPurchasers, resp \in PairAnswers : PollAnswer(p, resp)
    \/ \E p \in PairPurchasers : WakeUp(p)
    \/ \E i \in 1..Len(intents) : GatewayStep(i)
    \/ ClockNeeded /\ Tick

SpecPair == InitPair /\ [][NextPair]_vars

\* ======================================================================
\* SpecApp: CryptoClickerApp once the user has connected a wallet: the BUY
\* buttons, the purchase modal, the wallet button (which now disconnects)
\* and the purchases the confirm button starts
\* ======================================================================
InitApp ==
    /\ storage = NoItem
    /\ state = loadState(storage)
    /\ listeners = <<"scene">>
    /\ log = <<>>
    /\ ret = [val |-> Undefined, threw |-> FALSE]
    /\ faults = 0
    /\ mutated = FALSE
    /\ tally = Tally(state)
    /\ now = 0
    /\ hasEthereum = TRUE
    /\ provider = "provider" /\ signer = "0xA" /\ address = "0xA"
    /\ conn = [c \in Conns |-> IdleConn]
    /\ proc = [p \in PairPurchasers |-> IdleProc]
    /\ intents = <<>>
    /\ app = IdleApp

NextApp ==
    \/ isConnected /\ DisconnectWallet
    \/ \E p \in PairPurchasers : OpenPurchaseModal(PairItem(p))
    \/ CloseModal
    \/ \E p \in PairPurchasers : CalledInOrder(p) /\ ConfirmPurchase(p)
    \/ \E p \in PairPurchasers : ConfirmSettles(p)
    \/ \E p \in PairPurchasers, resp \in PairAnswers : QuoteAnswer(p, resp)
    \/ \E p \in PairPurchasers, resp \in PairAnswers : CommitAnswer(p, resp)
    \/ \E p \in PairPurchasers, resp \in PairAnswers : ExecuteAnswer(p, resp)
    \/ \E p \in PairPurchasers, resp \in PairAnswers : PollAnswer(p, resp)
    \/ \E p \in PairPurchasers : WakeUp(p)
    \/ \E i \in 1..Len(intents) : GatewayStep(i)
    \/ ClockNeeded /\ Tick

SpecApp == InitApp /\ [][NextApp]_vars

\* ======================================================================
\* SpecWait: waitIntentReceipt called on its own with options
\* ======================================================================
Timeouts == {-1, 0, 1, DefaultTimeout}
PollIntervals == {DefaultPollInterval, DefaultPollInterval + 1}

\* the gateway holds an intent that was executed earlier
InitWait ==
    /\ storage = NoItem
    /\ state = loadState(storage)
    /\ listeners = <<>>
    /\ log = <<>>
    /\ ret = [val |-> Undefined, threw |-> FALSE]
    /\ faults = 0
    /\ mutated = FALSE
    /\ tally = Tally(state)
    /\ now = 0
    /\ hasEthereum = FALSE
    /\ provider = NULL /\ signer = NULL /\ address = NULL
    /\ conn = [c \in Conns |-> IdleConn]
    /\ proc = [p \in Procs |-> IdleProc]
    /\ intents = <<"pending">>
    /\ app = IdleApp

NextWait ==
    \/ \E p \in Waiters, i \in 1..Len(intents), t \in Timeouts, d \in PollIntervals :
           WaitIntentReceipt(p, i, t, d)
    \/ \E p \in Waiters, resp \in Answers : PollAnswer(p, resp)
    \/ \E p \in Waiters : WakeUp(p)
    \/ \E i \in 1..Len(intents) : GatewayStep(i)
    \/ Tick

SpecWait == InitWait /\ [][NextWait]_vars

\* ======================================================================
\* Properties
\* ======================================================================
Count(trace, e) == Cardinality({i \in 1..Len(trace) : trace[i].e = e})
Has(trace, e) == \E i \in 1..Len(trace) : trace[i].e = e
Last(trace) == trace[Len(trace)]

RemoteCalls == {"quoteIntent", "commitIntent", "executeIntent", "getIntentReceipt"}
Labels == {LabelQuote, LabelCommit, LabelExecute, LabelWait}

\* the manager as purchaseItem found it: nothing earned, nothing bought
FreshGame == [TheGame EXCEPT !.state = DefaultState, !.storage = NoItem,
                             !.mutated = FALSE]
GameUntouched == state = DefaultState /\ storage = NoItem /\ ~mutated /\ log = <<>>

\* C1: a purchaseItem invocation never calls effect() more than once; the
\* call comes right after the answer that carried the final receipt and, when
\* purchaseItem returns, right before the return; an invocation that returned
\* a receipt called effect() once if the status is 'completed' and not at all
\* otherwise, and GameState shows exactly one application of the item's effect
\* in the first case and none in the second.
EffectOnceIffCompleted ==
    \A p \in Purchasers :
        LET r == proc[p]
            n == Len(r.trace)
        IN  /\ Count(r.trace, "effect") <= 1
            /\ \A i \in 1..n : r.trace[i].e = "effect" =>
                   /\ i >= 3
                   /\ r.trace[i - 1].e = "ok"
                   /\ r.trace[i - 2].e = "getIntentReceipt"
                   /\ r.receipt = "completed"
            /\ r.out.kind = "returned" =>
                   /\ r.out.status = r.receipt
                   /\ Last(r.trace).e = "return"
                   /\ IF r.out.status = "completed"
                      THEN /\ Count(r.trace, "effect") = 1
                           /\ r.trace[n - 1].e = "effect"
                           /\ \E t \in 0..now :
                                  state = effect(r.item, FreshGame, t).g.state
                      ELSE /\ Count(r.trace, "effect") = 0
                           /\ GameUntouched

PurchaseCompleted ==
    \E p \in Purchasers :
        /\ proc[p].out = Returned("completed")
        /\ Count(proc[p].trace, "effect") = 1
        /\ Greater(state.purchaseCount, Num(0))

\* C2: when the receipt purchaseItem waited for is 'failed' or 'refunded',
\* purchaseItem returns that receipt and does not throw, effect() is not
\* called, and the in-memory record and the storage slot are as they were.
FailedReceiptIsReturned ==
    \A p \in Purchasers :
        proc[p].receipt \in {"failed", "refunded"} =>
            /\ proc[p].pc = "done"
            /\ proc[p].out = Returned(proc[p].receipt)
            /\ intents[proc[p].intentId] = proc[p].receipt
            /\ ~Has(proc[p].trace, "effect")
            /\ ~Has(proc[p].trace, "throw")
            /\ GameUntouched

PurchaseRefunded ==
    \E p \in Purchasers :
        /\ proc[p].receipt = "refunded"
        /\ proc[p].out.kind = "returned"
        /\ Has(proc[p].trace, "sleep")

\* C3: purchaseItem called while the address or the signer is missing throws
\* 'Wallet not connected' at once: no label is reported, no remote call is
\* issued, no intent is minted for it, effect() is not called and GameState
\* is unchanged.
NotConnectedFailsFirst ==
    \A p \in Purchasers :
        (proc[p].kind = "purchase" /\ ~proc[p].wasConnected) =>
            /\ proc[p].pc = "done"
            /\ proc[p].out = Threw(NotConnectedMsg)
            /\ proc[p].trace = <<Ev("throw")>>
            /\ \A i \in 1..Len(proc[p].trace) :
                   proc[p].trace[i].e \notin RemoteCalls \cup Labels \cup {"effect"}
            /\ proc[p].intentId = 0
            /\ GameUntouched

PurchaseWhileConnecting ==
    \E p \in Purchasers :
        /\ proc[p].kind = "purchase"
        /\ ~proc[p].wasConnected
        /\ proc[p].out.kind = "threw"
        /\ signer # NULL

\* the remote call of step k and the label reported for it
StepCall(k) == <<"quoteIntent", "commitIntent", "executeIntent", "getIntentReceipt">>[k]
StepLabel(k) == <<LabelQuote, LabelCommit, LabelExecute, LabelWait>>[k]

\* C4: in one purchaseItem invocation each phase label is reported at most
\* once and is immediately followed by the call of its step; quote, commit
\* and execute are called only right after their label, a receipt poll only
\* right after the fourth label or after the pause that follows an earlier
\* poll; the label of step k+1 comes only right after the successful answer
\* to step k; after a failed call or a timeout nothing follows but the throw.
StepsInOrder ==
    \A p \in Purchasers :
        LET tr == proc[p].trace
            n == Len(tr)
        IN  proc[p].wasConnected =>
            /\ \A k \in 1..4 : Count(tr, StepLabel(k)) <= 1
            /\ \A k \in 1..4, i \in 1..n : tr[i].e = StepLabel(k) =>
                   /\ i < n /\ tr[i + 1].e = StepCall(k)
                   /\ IF k = 1 THEN i = 1
                      ELSE /\ i >= 3
                           /\ tr[i - 1].e = "ok"
                           /\ tr[i - 2].e = StepCall(k - 1)
            /\ \A k \in 1..3, i \in 1..n : tr[i].e = StepCall(k) =>
                   i > 1 /\ tr[i - 1].e = StepLabel(k)
            /\ \A i \in 1..n : tr[i].e = "getIntentReceipt" =>
                   /\ i > 1
                   /\ \/ tr[i - 1].e = LabelWait
                      \/ /\ tr[i - 1].e = "sleep"
                         /\ i >= 4
                         /\ tr[i - 2].e = "ok"
                         /\ tr[i - 3].e = "getIntentReceipt"
            /\ \A i \in 1..n : tr[i].e = "error" =>
                   i + 1 = n /\ tr[n].e = "throw"
            /\ \A i \in 1..n : tr[i].e = "throw" => i = n

AllFourLabels ==
    \E p \in Purchasers :
        /\ proc[p].pc = "done"
        /\ \A k \in 1..4 : Count(proc[p].trace, StepLabel(k)) = 1

\* C5: when a remote call of purchaseItem fails or the wait times out,
\* purchaseItem throws: 'Transaction rejected by user' when the message of
\* the error contains 'rejected', otherwise the very message the error was
\* raised with; effect() is not called.
ErrorsClassified ==
    \A p \in Purchasers :
        LET r == proc[p]
        IN  /\ (Has(r.trace, "error") /\ r.pc = "done") =>
                   /\ r.out.kind = "threw"
                   /\ r.raised \in ProviderMsgs \cup
                          {FetchFailedMsg, UnknownMsg} \cup
                          {<<"API", "error:", st>> : st \in {"400", "500"}}
            /\ (r.kind = "purchase" /\ r.wasConnected /\ r.out.kind = "threw"
                  /\ (Has(r.trace, "error") \/ r.raised = TimeoutMsg)) =>
                   /\ r.out.msg = IF \E i \in 1..Len(r.raised) : r.raised[i] = "rejected"
                                  THEN <<"Transaction", "rejected", "by", "user">>
                                  ELSE r.raised
                   /\ ~Has(r.trace, "effect")
                   /\ GameUntouched

RejectionNormalised ==
    \E p \in Purchasers :
        /\ proc[p].out = Threw(RejectedMsg)
        /\ proc[p].raised = <<"User", "rejected", "the", "request">>
        /\ Has(proc[p].trace, "executeIntent")

\* C6: waitIntentReceipt returns only receipts whose status is completed,
\* failed or refunded; it throws 'Intent receipt timeout' only when at least
\* timeout has passed since it was called; and when no poll failed and the
\* receipt never became terminal, 'Intent receipt timeout' is how it ends.
WaitReturnsTerminalOrTimesOut ==
    \A w \in Waiters :
        LET r == proc[w]
        IN  /\ r.out.kind = "returned" =>
                   /\ r.out.status \in {"completed", "failed", "refunded"}
                   /\ r.out.status = intents[r.intentId]
            /\ r.out = Threw(TimeoutMsg) => now - r.startTime >= r.timeout
            /\ (r.pc = "done" /\ ~Has(r.trace, "error")
                  /\ intents[r.intentId] \notin {"completed", "failed", "refunded"})
                   => r.out = Threw(TimeoutMsg)

WaitTimedOut ==
    \E w \in Waiters :
        /\ proc[w].out = Threw(TimeoutMsg)
        /\ proc[w].timeout > 0
        /\ Has(proc[w].trace, "sleep")
        /\ intents[proc[w].intentId] = "processing"

\* C7: every purchaseItem invocation under way, the wait for the receipt
\* included, eventually ends by returning a receipt or throwing, provided
\* the clock advances and every request is answered.
PurchaseSettles ==
    \A p \in Purchasers :
        (proc[p].pc \notin {"idle", "done"})
            ~> (proc[p].pc = "done" /\ proc[p].out.kind \in {"returned", "threw"})

SettledAfterWaiting ==
    \E p \in Purchasers :
        /\ proc[p].pc = "done"
        /\ Count(proc[p].trace, "sleep") >= 2
        /\ proc[p].out = Threw(TimeoutMsg)
        /\ intents[proc[p].intentId] \in {"pending", "processing"}

\* C8: one purchaseItem invocation calls quoteIntent, commitIntent and
\* executeIntent at most once each; a failed remote call, a failed receipt
\* poll included, is the last remote call of the invocation, which ends at
\* once by throwing the error of that call.
NoRetry ==
    \A p \in Purchasers :
        LET tr == proc[p].trace
            n == Len(tr)
        IN  /\ \A k \in 1..3 : Count(tr, StepCall(k)) <= 1
            /\ Count(tr, "error") <= 1
            /\ \A i \in 1..n : tr[i].e = "error" =>
                   /\ i > 1 /\ tr[i - 1].e \in RemoteCalls
                   /\ \A j \in (i + 1)..n : tr[j].e \notin RemoteCalls
                   /\ proc[p].pc = "done"
                   /\ proc[p].out = Threw(IF includes(proc[p].raised, "rejected")
                                          THEN RejectedMsg ELSE proc[p].raised)

PollFailedOnce ==
    \E p \in Purchasers :
        LET tr == proc[p].trace
        IN  /\ Len(tr) >= 3
            /\ tr[Len(tr) - 2].e = "getIntentReceipt"
            /\ tr[Len(tr) - 1].e = "error"
            /\ Has(tr, "sleep")

\* C9: at the moment a subscriber is invoked by a notifying operation, the
\* storage slot already holds the serialization of the record it receives.
PersistedBeforeNotify ==
    \A i \in 1..Len(log) : log[i].persisted

\* C10: once a notifying mutation has been made, between operations the
\* storage slot holds exactly the serialization of the in-memory record.
SlotMirrorsState ==
    mutated => storage = Item(JSONstringify(state))

\* the slot holds a complete record: every key of GameState, no other key
FullRecordSlot(slot) ==
    /\ slot.item /\ slot.text # <<>> /\ JSONparses(slot.text)
    /\ {slot.text[i].k : i \in 1..Len(slot.text)} = {Keys[i] : i \in 1..Len(Keys)}

\* C11: coins <= totalCoinsEarned in every state reachable from the record
\* that load-on-construct produced.
CoinsAtMostEarned ==
    LessEq(Get(state, "coins"), Get(state, "totalCoinsEarned"))

\* C19: as long as no operation has changed the record, the record of a
\* manager whose slot was missing, unparsable, or held an object with missing
\* or unknown keys is the full default record.
LoadFallsBackToDefaults ==
    (~mutated /\ ~FullRecordSlot(storage)) => state = DefaultState

\* C20: saving the record and constructing the manager again from the slot
\* gives a record equal to the saved one.
SaveLoadRoundTrip ==
    [][Reload => state' = state]_vars

\* a field of the record before and after a step
Old(k) == Get(state, k)
New(k) == Get(state', k)
Same(ks) == \A k \in ks : New(k) = Old(k)

\* C12: for a manager started from the default record and used through
\* click, autoGenerate, addClickPower, addAutoPerSecond, setMultiplier and
\* checkMultiplierExpiry, totalCoinsEarned is the sum of the values click()
\* and autoGenerate() returned, and coins equals totalCoinsEarned.
EarnedIsSumOfReturns ==
    tally.scope =>
        /\ Get(state, "totalCoinsEarned") = Num(tally.sum)
        /\ Get(state, "coins") = Get(state, "totalCoinsEarned")

EarnedAfterPurchase ==
    /\ tally.scope
    /\ tally.sum = 3
    /\ state.totalClicks = Num(2)
    /\ state.purchaseCount = Num(1)

\* a manager on the default record with nothing in the slot, and the same
\* with a click power of 5
FreshManager == [state |-> DefaultState, listeners |-> <<>>, storage |-> NoItem,
                 log |-> <<>>, mutated |-> FALSE]
PowerFive == [FreshManager EXCEPT !.state.clickPower = Num(5)]

\* C13: click() adds 1 to totalClicks, adds clickPower * multiplier to coins
\* and to totalCoinsEarned, returns that amount, and leaves the other five
\* fields as they were; on a fresh record it returns 1, and after
\* setMultiplier(2, 1000) with clickPower 5 it returns 10.
ClickContract ==
    [][Click =>
        LET earned == Times(Old("clickPower"), Old("multiplier"))
        IN  /\ New("totalClicks") = Plus(Old("totalClicks"), Num(1))
            /\ New("coins") = Plus(Old("coins"), earned)
            /\ New("totalCoinsEarned") = Plus(Old("totalCoinsEarned"), earned)
            /\ ~ret'.threw => ret'.val = earned
            /\ Same({"clickPower", "autoPerSecond", "multiplier",
                     "multiplierEndTime", "purchaseCount"})
            /\ click(FreshManager).val = Num(1)
            /\ click(setMultiplier(PowerFive, 2, 1000, now).g).val = Num(10)]_vars

ClickedWithMultiplier ==
    /\ state.multiplier = Num(2)
    /\ state.totalClicks = Num(1)
    /\ state.coins = Num(2)
    /\ ret = [val |-> Num(2), threw |-> FALSE]

Counters == {"totalClicks", "totalCoinsEarned", "purchaseCount"}
NotSmaller == \A k \in Counters : ~Greater(Old(k), New(k))

PurchaseStep ==
    \/ \E a \in Amounts : AddClickPower(a)
    \/ \E a \in Amounts : AddAutoPerSecond(a)
    \/ \E m \in Multipliers, d \in Durations : SetMultiplier(m, d)

ExpiryOnce ==
    [][/\ \A m \in Multipliers, d \in Durations : SetMultiplier(m, d) =>
              /\ New("multiplier") = Num(m)
              /\ New("multiplierEndTime") = Num(now + d)
       /\ CheckMultiplierExpiry =>
              IF Old("multiplier").n > 1 /\ now > Old("multiplierEndTime").n
              THEN /\ New("multiplier") = Num(1)
                   /\ New("multiplierEndTime") = Num(0)
                   /\ ~ret'.threw => ret'.val = True
              ELSE /\ state' = state
                   /\ ret' = [val |-> False, threw |-> FALSE]
       /\ New("multiplier") # Old("multiplier") =>
              \/ \E m \in Multipliers, d \in Durations : SetMultiplier(m, d)
              \/ New("multiplier") = Num(1)]_vars

MultiplierExpired ==
    /\ ret = [val |-> True, threw |-> FALSE]
    /\ state.multiplier = Num(1)
    /\ state.multiplierEndTime = Num(0)
    /\ state.purchaseCount = Num(1)
    /\ state.clickPower = Num(1)
    /\ state.autoPerSecond = Num(0)
    /\ state.totalClicks = Num(0)

\* the end of the multiplier is 0 or lies in the past
Inactive ==
    \/ Old("multiplierEndTime") = Num(0)
    \/ Greater(Num(now), Old("multiplierEndTime"))

\* C17: a click() or an autoGenerate(), on its own or in the timer callback,
\* executed while multiplierEndTime is 0 or in the past adds and returns the
\* unscaled amount: clickPower, respectively autoPerSecond.
InactiveMultiplierDoesNotScale ==
    [][Inactive =>
        /\ Click =>
              /\ New("coins") = Plus(Old("coins"), Old("clickPower"))
              /\ ~ret'.threw => ret'.val = Old("clickPower")
        /\ (AutoGenerate \/ TimerCallback)
              /\ Greater(Old("autoPerSecond"), Num(0)) =>
              /\ New("coins") = Plus(Old("coins"), Old("autoPerSecond"))
              /\ ~ret'.threw => ret'.val = Old("autoPerSecond")]_vars

\* C18: autoGenerate() with autoPerSecond <= 0 returns 0, changes no field,
\* calls no subscriber and does not write the slot; with autoPerSecond > 0 it
\* adds autoPerSecond * multiplier to coins and totalCoinsEarned, returns
\* that amount and leaves totalClicks as it was.
AutoGenerateContract ==
    [][AutoGenerate =>
        IF LessEq(Old("autoPerSecond"), Num(0))
        THEN /\ ret' = [val |-> Num(0), threw |-> FALSE]
             /\ state' = state
             /\ log' = <<>>
             /\ storage' = storage
             /\ mutated' = mutated
        ELSE LET earned == Times(Old("autoPerSecond"), Old("multiplier"))
             IN  /\ New("coins") = Plus(Old("coins"), earned)
                 /\ New("totalCoinsEarned") = Plus(Old("totalCoinsEarned"), earned)
                 /\ ~ret'.threw => ret'.val = earned
                 /\ Len(log') >= Len(listeners) \/ ret'.threw
                 /\ Same({"totalClicks"})]_vars

AutoGenerated ==
    /\ state.autoPerSecond = Num(2)
    /\ state.coins = Num(2)
    /\ state.totalCoinsEarned = Num(2)
    /\ state.totalClicks = Num(0)
    /\ ret = [val |-> Num(2), threw |-> FALSE]

\* the bounds the record's fields are documented with
AtLeast(v, n) == LessEq(Num(n), v)

\* C21: in every reachable GameState coins >= 0, clickPower >= 1,
\* autoPerSecond >= 0 and multiplier >= 1, whatever numeric arguments the
\* operations were called with.
FieldBounds ==
    /\ AtLeast(Get(state, "coins"), 0)
    /\ AtLeast(Get(state, "clickPower"), 1)
    /\ AtLeast(Get(state, "autoPerSecond"), 0)
    /\ AtLeast(Get(state, "multiplier"), 1)

\* C22: a notifying mutation invokes every registered listener exactly once,
\* with a snapshot equal to the new record, and invokes no listener that has
\* unsubscribed.
ListenersNotified ==
    log # <<>> =>
        /\ \A i \in 1..Len(listeners) :
               Cardinality({j \in 1..Len(log) : log[j].listener = listeners[i]}) = 1
        /\ \A j \in 1..Len(log) :
               /\ log[j].snap = state
               /\ \E i \in 1..Len(listeners) : listeners[i] = log[j].listener

\* C23: in every state in which isConnected() is false, getChainId() fails
\* with 'Wallet not connected'.
ChainIdNeedsConnection ==
    ~isConnected => getChainId = Threw(NotConnectedMsg)

\* C24: once disconnectWallet() has returned, isConnected() becomes true
\* again only through a connectWallet() call that was issued after it.
DisconnectHolds ==
    [][(~isConnected /\ isConnected') =>
           \E c \in Conns : conn[c].pc = "getAddress" /\ ~conn[c].stale]_vars

\* C25: connectWallet() called without a provider in the host environment
\* fails with NoWalletDetected and leaves provider, signer and address as
\* they were, and it fails that way in no other case; called with a provider
\* it goes on to resolve the signer, whether or not a session exists; when it
\* succeeds, address is the address it resolved and isConnected() is true.
ConnectContract ==
    [][\A c \in Conns :
        /\ (conn[c].pc = "idle" /\ conn'[c] # conn[c]) =>
               IF hasEthereum
               THEN conn'[c].pc = "getSigner" /\ conn'[c].out = "none"
               ELSE /\ conn'[c].pc = "idle"
                    /\ conn'[c].out = "NoWalletDetected"
                    /\ UNCHANGED <<provider, signer, address>>
        /\ (conn[c].pc # "idle" /\ conn'[c].out = "connected") =>
               /\ conn[c].acct \in WalletAccounts
               /\ signer' = signer
               /\ address' = conn[c].acct
               /\ isConnected']_vars

\* a session as 0xA was replaced by one as 0xB, or the other way round
Reconnected ==
    \E c \in Conns :
        /\ conn[c].out = "connected"
        /\ conn[c].prev # NULL
        /\ address # NULL
        /\ address # conn[c].prev

\* a request of the purchase flow is answered with resp
Answered(p, resp) ==
    \/ QuoteAnswer(p, resp)
    \/ CommitAnswer(p, resp)
    \/ ExecuteAnswer(p, resp)
    \/ PollAnswer(p, resp)

\* C26: a request answered with a non-2xx response fails with the message
\* field of the body when the body carries a non-empty one, and otherwise,
\* a body that does not parse included, with a message that contains the
\* status code; a 2xx response raises neither.
NonOkErrorMessage ==
    [][\A p \in Purchasers, resp \in Responses :
        (resp.net /\ Answered(p, resp)) =>
            IF ResponseOk(resp)
            THEN /\ proc'[p].raised \notin ProviderMsgs
                 /\ ~includes(proc'[p].raised, StatusText(resp.status))
            ELSE /\ proc'[p].out.kind = "threw"
                 /\ IF resp.body.parses /\ resp.body.message # <<>>
                    THEN proc'[p].raised = resp.body.message
                    ELSE includes(proc'[p].raised, StatusText(resp.status))]_vars

\* the invocations that called effect()
Applied == {p \in DOMAIN proc : Has(proc[p].trace, "effect")}

\* each invocation executes and polls the intent its own commit minted, which
\* no other invocation uses; it calls effect() only for a 'completed' receipt
\* of that intent, and the record shows the effects of exactly the items
\* whose invocations called effect()
OwnIntentOnly ==
    /\ \A p \in DOMAIN proc :
           LET r == proc[p]
           IN  /\ \A i \in 1..Len(r.trace) :
                      r.trace[i].e \in {"executeIntent", "getIntentReceipt"} =>
                          /\ r.trace[i].id = r.intentId
                          /\ r.intentId \in 1..Len(intents)
               /\ \A q \in DOMAIN proc \ {p} :
                      r.intentId # 0 => proc[q].intentId # r.intentId
               /\ Count(r.trace, "effect") <= 1
               /\ p \in Applied =>
                      /\ r.receipt = "completed"
                      /\ intents[r.intentId] = "completed"
    /\ state.clickPower =
           Num(IF \E p \in Applied : proc[p].item = "click-boost" THEN 11 ELSE 1)
    /\ state.autoPerSecond =
           Num(IF \E p \in Applied : proc[p].item = "auto-miner" THEN 5 ELSE 0)
    /\ state.purchaseCount = Num(Cardinality(Applied))

\* C27: concurrent purchaseItem invocations each execute and poll only their
\* own intent and apply only their own item's effect, and once all of them
\* have settled the number of effect() calls equals the number of invocations
\* that returned a 'completed' receipt.
ConcurrentPurchasesIndependent ==
    /\ OwnIntentOnly
    /\ (\A p \in DOMAIN proc : proc[p].pc = "done") =>
           Cardinality(Applied) =
               Cardinality({p \in DOMAIN proc : proc[p].out = Returned("completed")})

\* C28: whenever isConnected() is true, signer and provider are set as well:
\* purchaseItem passes its connection check and getChainId() does not fail
\* with 'Wallet not connected'.
SessionConsistent ==
    isConnected =>
        /\ signer # NULL
        /\ provider # NULL
        /\ ~NotConnected(address, signer)
        /\ getChainId # Threw(NotConnectedMsg)

\* C29: a disconnectWallet() that comes after purchaseItem passed its
\* connection check changes nothing of the invocation; the invocation keeps
\* the owner address it read for the quote, its remaining steps run in
\* order, and when its receipt is 'completed' effect() is applied exactly
\* once, connected or not (stated of every step that changes the invocation
\* or the record).
DisconnectDoesNotCancel ==
    [][\A p \in Purchasers :
        LET r == proc[p]
            r2 == proc'[p]
        IN  /\ (r.pc # "idle") => (r2.owner = r.owner /\ r2.item = r.item)
            /\ (r.pc \notin {"idle", "done"} /\ ~r.cut /\ r2.cut) =>
                   /\ [r2 EXCEPT !.cut = FALSE] = r
                   /\ intents' = intents
                   /\ UNCHANGED gameVars
                   /\ ~isConnected'
            /\ (r2.cut /\ (r2 # r \/ state' # state)) =>
                   /\ r2.wasConnected /\ r2.owner \in Accounts
                   /\ StepsInOrder'
                   /\ Count(r2.trace, "effect") <= 1
                   /\ Has(r2.trace, "effect") <=>
                          (r2.receipt = "completed" /\ r2.pc = "done")
                   /\ (r2.pc = "done" /\ r2.receipt = "completed") =>
                          \E t \in 0..now' :
                              state' = effect(r2.item, FreshGame, t).g.state
                   /\ r2.out.kind = "returned" => r2.out.status = r2.receipt]_vars

CompletedAfterDisconnect ==
    \E p \in Purchasers :
        /\ proc[p].cut
        /\ proc[p].out = Returned("completed")
        /\ Count(proc[p].trace, "effect") = 1
        /\ Greater(state.purchaseCount, Num(0))
        /\ ~isConnected

\* the purchaseItem invocations that have started and not settled
InFlight == {p \in DOMAIN proc : proc[p].kind = "purchase"
                                   /\ proc[p].pc \notin {"idle", "done"}}

\* C30: the confirm button is disabled from the start of a purchase until
\* confirmPurchase has handled its outcome and is enabled again after every
\* outcome, so at most one purchase is in flight; closing the modal during
\* a purchase does not cancel the purchase and does not allow a second one.
ConfirmSerialises ==
    [][/\ Cardinality(InFlight') <= 1
       /\ Cardinality(app'.awaiting) <= 1
       /\ InFlight' \subseteq app'.awaiting
       /\ app'.disabled <=> app'.awaiting # {}
       /\ (InFlight # {} /\ app.active /\ ~app'.active)
              => /\ proc' = proc
                 /\ app'.disabled
                 /\ app'.awaiting = app.awaiting]_vars

\* a first purchase has thrown, the button was enabled again, and the
\* second purchase is in flight with the modal closed
SecondPurchaseBehindClosedModal ==
    /\ proc["p1"].pc = "done"
    /\ proc["p1"].out.kind = "threw"
    /\ "p2" \in InFlight
    /\ ~app.active
    /\ app.disabled

\* the receipt polls of a trace that have no answer yet
Outstanding(trace) ==
    Count(trace, "getIntentReceipt") - Count(trace, "ok") - Count(trace, "error")

\* C31: waitIntentReceipt has at most one receipt poll outstanding; it
\* starts a poll only while the time since the call began is strictly less
\* than timeout, and otherwise fails with the timeout error, so with
\* timeout <= 0 it never polls; after a non-terminal answer the next poll
\* starts no sooner than pollInterval later; the first terminal answer ends
\* the call with that receipt and no poll follows it.
PollsOneAtATime ==
    [][\A p \in Waiters :
          LET r == proc[p]
              r2 == proc'[p]
              started == Count(r2.trace, "getIntentReceipt")
                             - Count(r.trace, "getIntentReceipt")
              status == intents[r.intentId]
          IN  r2 # r =>
                /\ Outstanding(r2.trace) \in {0, 1}
                /\ Outstanding(r2.trace) = 1 <=> r2.pc = "poll"
                /\ started \in {0, 1}
                /\ started = 1 =>
                      /\ Outstanding(r.trace) = 0
                      /\ now' - r2.startTime < r2.timeout
                      /\ r.pc = "sleep" => now' >= r.wakeAt
                /\ (r.pc \in {"idle", "sleep"} /\ started = 0) =>
                      /\ ~(now' - r2.startTime < r2.timeout)
                      /\ r2.pc = "done" /\ r2.out = Threw(TimeoutMsg)
                /\ r.pc = "idle" => r2.startTime = now
                /\ r2.timeout <= 0 =>
                      /\ Count(r2.trace, "getIntentReceipt") = 0
                      /\ r2.out = Threw(TimeoutMsg)
                /\ (r.pc = "poll" /\ r2.trace[Len(r.trace) + 1].e = "ok") =>
                      /\ started = 0
                      /\ IF status \in {"completed", "failed", "refunded"}
                         THEN r2.pc = "done" /\ r2.out = Returned(status)
                         ELSE /\ r2.pc = "sleep"
                              /\ r2.wakeAt = now + r2.pollInterval
                /\ r.pc # "idle" =>
                      /\ r2.startTime = r.startTime
                      /\ r2.timeout = r.timeout
                      /\ r2.pollInterval = r.pollInterval
                      /\ r2.intentId = r.intentId
                /\ r.pc # "done"]_vars

\* a wait that polled, paused after a non-terminal answer, polled again and
\* returned the terminal receipt of its second poll
ReturnedAtSecondPoll ==
    \E p \in Waiters :
        /\ Count(proc[p].trace, "getIntentReceipt") = 2
        /\ Count(proc[p].trace, "sleep") = 1
        /\ proc[p].out.kind = "returned"

====
